---- MODULE Spec2Model ----
(***************************************************************************)
(* Model of the omg.lol libdns provider (package omglol).                  *)
(*                                                                         *)
(* Go strings that are split, trimmed or compared case-insensitively       *)
(* (names, zones, record types, IDs) are sequences of one-character        *)
(* strings.  Record data is only ever compared for equality and is a plain *)
(* TLA+ string.  Durations are whole seconds.                              *)
(***************************************************************************)
EXTENDS Integers, Sequences, FiniteSets, TLC

VARIABLES store, nextID, last, cmp

vars == <<store, nextID, last, cmp>>

(***************************************************************************)
(* Bounds                                                                  *)
(***************************************************************************)
\* longest record list handed to a handler
MaxIn == 2

(***************************************************************************)
(* strings package                                                         *)
(***************************************************************************)
Dot == <<".">>

UpperLetters == <<"A","B","C","D","E","F","G","H","I","J","K","L","M",
                  "N","O","P","Q","R","S","T","U","V","W","X","Y","Z">>

LowerLetters == <<"a","b","c","d","e","f","g","h","i","j","k","l","m",
                  "n","o","p","q","r","s","t","u","v","w","x","y","z">>

Digits == <<"0","1","2","3","4","5","6","7","8","9">>

ToLower(c) ==
    IF \E k \in 1..26 : UpperLetters[k] = c
    THEN LowerLetters[CHOOSE k \in 1..26 : UpperLetters[k] = c]
    ELSE c

ToUpper(c) ==
    IF \E k \in 1..26 : LowerLetters[k] = c
    THEN UpperLetters[CHOOSE k \in 1..26 : LowerLetters[k] = c]
    ELSE c

\* strings.EqualFold restricted to ASCII
EqualFold(s, t) ==
    /\ Len(s) = Len(t)
    /\ \A k \in 1..Len(s) : ToLower(s[k]) = ToLower(t[k])

HasSuffix(s, suffix) ==
    /\ Len(suffix) <= Len(s)
    /\ SubSeq(s, Len(s) - Len(suffix) + 1, Len(s)) = suffix

TrimSuffix(s, suffix) ==
    IF HasSuffix(s, suffix) THEN SubSeq(s, 1, Len(s) - Len(suffix)) ELSE s

\* strings.SplitN(s, ".", 2)[0]
FirstLabel(s) ==
    IF \E k \in 1..Len(s) : s[k] = "."
    THEN SubSeq(s, 1, (CHOOSE k \in 1..Len(s) :
                          /\ s[k] = "."
                          /\ \A m \in 1..(k - 1) : s[m] # ".") - 1)
    ELSE s

\* strconv.FormatInt(n, 10)
RECURSIVE FormatInt(_)
FormatInt(n) ==
    IF n < 0 THEN <<"-">> \o FormatInt(0 - n)
    ELSE IF n < 10 THEN <<Digits[n + 1]>>
    ELSE FormatInt(n \div 10) \o <<Digits[(n % 10) + 1]>>

IsDigit(c) == \E k \in 1..10 : Digits[k] = c

DigitVal(c) == (CHOOSE k \in 1..10 : Digits[k] = c) - 1

RECURSIVE DigitsVal(_)
DigitsVal(s) ==
    IF s = <<>> THEN 0
    ELSE 10 * DigitsVal(SubSeq(s, 1, Len(s) - 1)) + DigitVal(s[Len(s)])

\* strconv.Atoi: optional sign followed by at least one digit
Atoi(s) ==
    LET body == IF s # <<>> /\ s[1] \in {"+", "-"} THEN Tail(s) ELSE s
        neg  == s # <<>> /\ s[1] = "-"
    IN  IF body = <<>> \/ \E k \in 1..Len(body) : ~IsDigit(body[k])
        THEN [ok |-> FALSE, val |-> 0]
        ELSE [ok |-> TRUE, val |-> IF neg THEN 0 - DigitsVal(body) ELSE DigitsVal(body)]

(***************************************************************************)
(* libdns.RelativeName                                                     *)
(***************************************************************************)
RelativeName(fqdn, zone) ==
    LET rel == TrimSuffix(TrimSuffix(TrimSuffix(fqdn, Dot), TrimSuffix(zone, Dot)), Dot)
    IN  IF rel = <<>> /\ fqdn # <<>> /\ zone # <<>> THEN <<"@">> ELSE rel

(***************************************************************************)
(* models.go                                                               *)
(***************************************************************************)
\* interface{} values decoded from JSON: a number is a float64, a string a
\* string; an int is what SetRecords stores in the synthesized record.
NumVal(n) == [tag |-> "float64", num |-> n, str |-> <<>>]
StrVal(s) == [tag |-> "string", num |-> 0, str |-> s]
IntVal(n) == [tag |-> "int", num |-> n, str |-> <<>>]
NilVal == [tag |-> "nil", num |-> 0, str |-> <<>>]

omglolRecord(id, type, name, data, ttl) ==
    [ID |-> id, Type |-> type, Name |-> name, Data |-> data, TTL |-> ttl]

omglolRecordPayload(type, name, data, ttl) ==
    [Type |-> type, Name |-> name, Data |-> data, TTL |-> ttl]

recordID(r) ==
    CASE r.ID.tag = "float64" -> FormatInt(r.ID.num)
      [] r.ID.tag = "string"  -> r.ID.str
      [] r.ID.tag = "int"     -> FormatInt(r.ID.num)
      [] OTHER                -> <<"<","n","i","l",">">>

ttlSeconds(r) ==
    CASE r.TTL.tag = "float64" -> r.TTL.num
      [] r.TTL.tag = "string"  ->
            IF Atoi(r.TTL.str).ok THEN Atoi(r.TTL.str).val ELSE 3600
      [] OTHER                 -> 3600

toLibdnsRecord(r, zone) ==
    LET rel  == RelativeName(r.Name \o Dot \o TrimSuffix(zone, Dot), zone)
        name == IF rel = <<>> THEN <<"@">> ELSE rel
    IN  [Name |-> name, TTL |-> ttlSeconds(r), Type |-> r.Type, Data |-> r.Data]

(***************************************************************************)
(* client.go: libdnsRecordToPayload                                        *)
(***************************************************************************)
libdnsRecordToPayload(record, zone) ==
    LET ttl          == IF record.TTL <= 0 THEN 300 ELSE record.TTL
        address      == FirstLabel(TrimSuffix(zone, Dot))
        relativeName == RelativeName(record.Name, zone)
        omglolName   == IF relativeName = <<"@">> \/ relativeName = <<>>
                        THEN address ELSE relativeName
    IN  omglolRecordPayload(record.Type, omglolName, record.Data, ttl)

(***************************************************************************)
(* provider.go: namesMatch                                                 *)
(***************************************************************************)
namesMatch(apiName, payloadName, zone) ==
    LET zoneNoSuffix == TrimSuffix(zone, Dot)
        address      == FirstLabel(zoneNoSuffix)
        stripped     == TrimSuffix(apiName, Dot \o address)
        apiLabel     == IF stripped = address THEN address ELSE stripped
    IN  EqualFold(apiLabel, payloadName) \/ EqualFold(apiName, payloadName)

(***************************************************************************)
(* The omg.lol API server, as the client sees it                           *)
(***************************************************************************)
\* Provider.Address
Address == <<"g">>

\* What a response carries that the client looks at: the HTTP status and
\* the envelope's request.success flag.
Resp == { [status |-> 200, success |-> TRUE],
          [status |-> 200, success |-> FALSE],
          [status |-> 201, success |-> TRUE],
          [status |-> 500, success |-> FALSE] }

\* The server has carried the request out exactly when it answers 2xx with
\* success = true.
Applied(resp) == resp.status \in 200..299 /\ resp.success

\* "omg.lol stores names as <label>.<address> or just <address> for the apex
\* record.  The payload name we build is the label portion only."
StoredName(payloadName) ==
    IF payloadName = Address THEN Address ELSE payloadName \o Dot \o Address

NoPayload == omglolRecordPayload(<<>>, <<>>, "", 0)

NoRecord == omglolRecord(NilVal, <<>>, <<>>, "", NilVal)

\* One request as it went over the wire; idx is the position of the input
\* record being processed (0 for the listing).
Call(kind, idx, id, payload, resp, err) ==
    [kind |-> kind, idx |-> idx, id |-> id, payload |-> payload, resp |-> resp,
     err |-> err]

ServerCreate(st, id, payload) ==
    Append(st, omglolRecord(NumVal(id), payload.Type, StoredName(payload.Name),
                            payload.Data, NumVal(payload.TTL)))

ServerUpdate(st, id, payload) ==
    [k \in 1..Len(st) |->
        IF recordID(st[k]) = id
        THEN omglolRecord(st[k].ID, payload.Type, StoredName(payload.Name),
                          payload.Data, NumVal(payload.TTL))
        ELSE st[k]]

RECURSIVE ServerDelete(_, _)
ServerDelete(st, id) ==
    IF st = <<>> THEN <<>>
    ELSE IF recordID(Head(st)) = id THEN ServerDelete(Tail(st), id)
    ELSE <<Head(st)>> \o ServerDelete(Tail(st), id)

(***************************************************************************)
(* client.go: the four store calls.  acc is the world while a handler      *)
(* runs: the server's records, the requests sent so far, the handler's     *)
(* result list.                                                            *)
(***************************************************************************)
listRecords(acc, resp) ==
    LET err == IF resp.status # 200 THEN "http"
               ELSE IF ~resp.success THEN "unsuccessful" ELSE "nil"
    IN  [acc |-> [acc EXCEPT !.calls = Append(@, Call("list", 0, <<>>, NoPayload, resp, err))],
         dns |-> IF err = "nil" THEN acc.store ELSE <<>>,
         err |-> err]

createRecord(acc, idx, payload, resp) ==
    LET err   == IF resp.status # 200 THEN "http"
                 ELSE IF ~resp.success THEN "unsuccessful" ELSE "nil"
        after == IF Applied(resp) THEN ServerCreate(acc.store, acc.nextID, payload)
                 ELSE acc.store
    IN  [acc |-> [acc EXCEPT !.calls = Append(@, Call("create", idx, <<>>, payload, resp, err)),
                             !.store = after,
                             !.nextID = IF Applied(resp) THEN @ + 1 ELSE @],
         rec |-> IF err = "nil" THEN after[Len(after)] ELSE NoRecord,
         err |-> err]

updateRecord(acc, idx, id, payload, resp) ==
    LET err == IF resp.status # 200 THEN "http" ELSE "nil"
    IN  [acc |-> [acc EXCEPT !.calls = Append(@, Call("update", idx, id, payload, resp, err)),
                             !.store = IF Applied(resp) THEN ServerUpdate(@, id, payload) ELSE @],
         err |-> err]

deleteRecord(acc, idx, id, resp) ==
    LET err == IF resp.status # 200 THEN "http" ELSE "nil"
    IN  [acc |-> [acc EXCEPT !.calls = Append(@, Call("delete", idx, id, NoPayload, resp, err)),
                             !.store = IF Applied(resp) THEN ServerDelete(@, id) ELSE @],
         err |-> err]

(***************************************************************************)
(* provider.go: the four handlers.  Each operator yields the set of ways   *)
(* the handler can run, one per choice of the server's responses.          *)
(***************************************************************************)
GetRecordsRuns(zone, acc) ==
    { LET l == listRecords(acc, resp)
      IN  IF l.err # "nil"
          THEN [l.acc EXCEPT !.err = l.err, !.results = <<>>]
          ELSE [l.acc EXCEPT !.existing = l.dns,
                             !.results = [k \in 1..Len(l.dns) |-> toLibdnsRecord(l.dns[k], zone)]]
      : resp \in Resp }

RECURSIVE AppendLoop(_, _, _, _)
AppendLoop(zone, records, i, acc) ==
    IF i > Len(records) THEN {acc}
    ELSE UNION {
      LET payload == libdnsRecordToPayload(records[i], zone)
          c       == createRecord(acc, i, payload, resp)
      IN  IF c.err # "nil"
          THEN {[c.acc EXCEPT !.err = c.err]}
          ELSE AppendLoop(zone, records, i + 1,
                          [c.acc EXCEPT !.results = Append(@, toLibdnsRecord(c.rec, zone))])
      : resp \in Resp }

\* AppendRecords returning nil instead of the records created so far
AppendRecordsRunsNil(zone, records, acc) ==
    { IF r.err # "nil" THEN [r EXCEPT !.results = <<>>] ELSE r :
        r \in AppendLoop(zone, records, 1, acc) }

AppendRecordsRuns(zone, records, acc) == AppendLoop(zone, records, 1, acc)

\* Index of the first existing record with the same type and name, 0 if none.
FirstMatch(existing, rr, payload, zone) ==
    LET hits == { k \in 1..Len(existing) :
                    /\ EqualFold(existing[k].Type, rr.Type)
                    /\ namesMatch(existing[k].Name, payload.Name, zone) }
    IN  IF hits = {} THEN 0 ELSE CHOOSE k \in hits : \A m \in hits : k <= m

RECURSIVE SetLoop(_, _, _, _, _)
SetLoop(zone, existing, records, i, acc) ==
    IF i > Len(records) THEN {acc}
    ELSE UNION {
      LET rr      == records[i]
          payload == libdnsRecordToPayload(records[i], zone)
          m       == FirstMatch(existing, rr, payload, zone)
      IN  IF m # 0
          THEN LET u       == updateRecord(acc, i, recordID(existing[m]), payload, resp)
                   updated == omglolRecord(existing[m].ID, payload.Type, payload.Name,
                                           payload.Data, IntVal(payload.TTL))
               IN  IF u.err # "nil"
                   THEN {[u.acc EXCEPT !.err = u.err]}
                   ELSE SetLoop(zone, existing, records, i + 1,
                                [u.acc EXCEPT !.results = Append(@, toLibdnsRecord(updated, zone))])
          ELSE LET c == createRecord(acc, i, payload, resp)
               IN  IF c.err # "nil"
                   THEN {[c.acc EXCEPT !.err = c.err]}
                   ELSE SetLoop(zone, existing, records, i + 1,
                                [c.acc EXCEPT !.results = Append(@, toLibdnsRecord(c.rec, zone))])
      : resp \in Resp }

\* SetRecords returning nil instead of the records processed so far
SetRecordsRunsNil(zone, records, acc) ==
    UNION {
      LET l == listRecords(acc, resp)
      IN  IF l.err # "nil"
          THEN {[l.acc EXCEPT !.err = l.err, !.results = <<>>]}
          ELSE { IF r.err # "nil" THEN [r EXCEPT !.results = <<>>] ELSE r :
                   r \in SetLoop(zone, l.dns, records, 1, [l.acc EXCEPT !.existing = l.dns]) }
      : resp \in Resp }

SetRecordsRuns(zone, records, acc) ==
    UNION {
      LET l == listRecords(acc, resp)
      IN  IF l.err # "nil"
          THEN {[l.acc EXCEPT !.err = l.err, !.results = <<>>]}
          ELSE SetLoop(zone, l.dns, records, 1, [l.acc EXCEPT !.existing = l.dns])
      : resp \in Resp }

\* DeleteRecords without the test on the data
deleteMatchesNoData(e, rr, payload, zone) ==
    /\ EqualFold(e.Type, rr.Type)
    /\ namesMatch(e.Name, payload.Name, zone)

\* The three tests of DeleteRecords' inner loop.
deleteMatches(e, rr, payload, zone) ==
    /\ EqualFold(e.Type, rr.Type)
    /\ namesMatch(e.Name, payload.Name, zone)
    /\ ~(rr.Data # "" /\ e.Data # rr.Data)

RECURSIVE DeleteLoop(_, _, _, _, _, _)
DeleteLoop(zone, existing, records, i, j, acc) ==
    IF i > Len(records) THEN {acc}
    ELSE IF j > Len(existing) THEN DeleteLoop(zone, existing, records, i + 1, 1, acc)
    ELSE LET rr      == records[i]
             payload == libdnsRecordToPayload(records[i], zone)
             e       == existing[j]
         IN  IF ~deleteMatches(e, rr, payload, zone)
             THEN DeleteLoop(zone, existing, records, i, j + 1, acc)
             ELSE UNION {
               LET d == deleteRecord(acc, i, recordID(e), resp)
               IN  IF d.err # "nil"
                   THEN {[d.acc EXCEPT !.err = d.err]}
                   ELSE DeleteLoop(zone, existing, records, i, j + 1,
                                   [d.acc EXCEPT !.results = Append(@, toLibdnsRecord(e, zone))])
               : resp \in Resp }

DeleteRecordsRuns(zone, records, acc) ==
    UNION {
      LET l == listRecords(acc, resp)
      IN  IF l.err # "nil"
          THEN {[l.acc EXCEPT !.err = l.err, !.results = <<>>]}
          ELSE DeleteLoop(zone, l.dns, records, 1, 1, [l.acc EXCEPT !.existing = l.dns])
      : resp \in Resp }

(***************************************************************************)
(* Inputs                                                                  *)
(***************************************************************************)
ZoneG == <<"g",".","o","m","g",".","l","o","l",".">>

Zones == {ZoneG}

TXT == <<"T","X","T">>
txt == <<"t","x","t">>

nApex   == <<"@">>
nAcme   == <<"a","c","m","e">>
nAcmeG  == <<"a","c","m","e",".","g">>
nACMEG  == <<"A","C","M","E",".","g">>
nG      == <<"g">>
nGG     == <<"g",".","g">>

\* libdns.RR
RR(name, type, data, ttl) == [Name |-> name, Type |-> type, Data |-> data, TTL |-> ttl]

InputRecords ==
    { RR(nAcme,  TXT, "new", 300),
      RR(nAcme,  txt, "",    0),
      RR(nApex,  txt, "",    0),
      RR(nAcmeG, TXT, "",    120) }

InputLists == UNION { [1..n -> InputRecords] : n \in 0..MaxIn }

\* Record lists the provider may hold when a handler is called: records are
\* also made through omg.lol's own interface.
InitialStores ==
    { <<>>,
      << omglolRecord(NumVal(1), TXT, nAcmeG, "old", NumVal(3600)) >>,
      << omglolRecord(NumVal(1), TXT, nAcmeG, "new", NumVal(300)),
         omglolRecord(StrVal(<<"2">>), txt, nACMEG, "other", StrVal(<<"1","2","0">>)) >>,
      << omglolRecord(NumVal(1), TXT, nG, "old", StrVal(<<"x">>)),
         omglolRecord(NumVal(2), TXT, nGG, "old", NumVal(3600)) >> }

(***************************************************************************)
(* State.  The Provider keeps nothing between calls: a behaviour is one    *)
(* handler call made against any of the record lists above.  last records  *)
(* the call: its arguments, the list it fetched, the requests it sent, and *)
(* what it returned.                                                       *)
(***************************************************************************)
NoOp == [op |-> "none", zone |-> <<>>, input |-> <<>>, pre |-> <<>>, preID |-> 0,
         existing |-> <<>>, calls |-> <<>>, results |-> <<>>, err |-> "nil"]

NoCmp == [apiName |-> <<>>, payloadName |-> <<>>, zone |-> <<>>,
          apiName2 |-> <<>>, payloadName2 |-> <<>>, zone2 |-> <<>>,
          match |-> FALSE, match2 |-> FALSE, done |-> FALSE]

Init ==
    /\ store \in InitialStores
    /\ nextID = Len(store) + 1
    /\ last = NoOp
    /\ cmp = NoCmp

\* The world a handler starts in.
Start == [store |-> store, nextID |-> nextID, existing |-> <<>>,
          calls |-> <<>>, results |-> <<>>, err |-> "nil"]

Finish(op, zone, records, run) ==
    /\ store' = run.store
    /\ nextID' = run.nextID
    /\ last' = [op |-> op, zone |-> zone, input |-> records, pre |-> store,
                preID |-> nextID, existing |-> run.existing, calls |-> run.calls,
                results |-> run.results, err |-> run.err]
    /\ UNCHANGED cmp

GetRecords ==
    /\ last.op = "none"
    /\ \E zone \in Zones :
         \E run \in GetRecordsRuns(zone, Start) : Finish("get", zone, <<>>, run)

AppendRecords ==
    /\ last.op = "none"
    /\ \E zone \in Zones, records \in InputLists :
         \E run \in AppendRecordsRuns(zone, records, Start) :
           Finish("append", zone, records, run)

SetRecords ==
    /\ last.op = "none"
    /\ \E zone \in Zones, records \in InputLists :
         \E run \in SetRecordsRuns(zone, records, Start) :
           Finish("set", zone, records, run)

DeleteRecords ==
    /\ last.op = "none"
    /\ \E zone \in Zones, records \in InputLists :
         \E run \in DeleteRecordsRuns(zone, records, Start) :
           Finish("delete", zone, records, run)

Next == GetRecords \/ AppendRecords \/ SetRecords \/ DeleteRecords

Spec == Init /\ [][Next]_vars

(***************************************************************************)
(* namesMatch on its own: the function applied to a name, a payload name   *)
(* and a zone, and to the same three spelled in another letter case.       *)
(***************************************************************************)
nACME     == <<"A","C","M","E">>
nAcmeUpG  == <<"a","c","m","e",".","G">>
ZoneUpG   == <<"G",".","o","m","g",".","l","o","l",".">>
ZoneNoDot == <<"g",".","o","m","g",".","l","o","l">>

ApiNames == {nAcmeG, nACMEG, nAcmeUpG, nG, <<"G">>, nGG}

PayloadNames == {nAcme, nACME, nG, nAcmeG}

CmpZones == {ZoneG, ZoneUpG, ZoneNoDot}

NamesMatchCall ==
    /\ ~cmp.done
    /\ \E a \in ApiNames, n \in PayloadNames, z \in CmpZones :
         \E a2 \in ApiNames, n2 \in PayloadNames, z2 \in CmpZones :
           /\ EqualFold(a, a2) /\ EqualFold(n, n2) /\ EqualFold(z, z2)
           /\ cmp' = [apiName |-> a, payloadName |-> n, zone |-> z,
                      apiName2 |-> a2, payloadName2 |-> n2, zone2 |-> z2,
                      match |-> namesMatch(a, n, z),
                      match2 |-> namesMatch(a2, n2, z2), done |-> TRUE]
    /\ UNCHANGED <<store, nextID, last>>

InitNames ==
    /\ store = <<>>
    /\ nextID = 1
    /\ last = NoOp
    /\ cmp = NoCmp

NextNames == NamesMatchCall

SpecNames == InitNames /\ [][NextNames]_vars

(***************************************************************************)
(* Reading a finished call                                                 *)
(***************************************************************************)
\* the create, update and delete requests of the call, in order
Mutating == SelectSeq(last.calls, LAMBDA c : c.kind # "list")

\* the call fetched the record list
Listed ==
    /\ last.calls # <<>>
    /\ last.calls[1].kind = "list"
    /\ last.calls[1].err = "nil"

Payload(i) == libdnsRecordToPayload(last.input[i], last.zone)

\* existing records with the type (case-insensitively) and name of input i
TypeNameHits(i) ==
    { k \in 1..Len(last.existing) :
        /\ EqualFold(last.existing[k].Type, last.input[i].Type)
        /\ namesMatch(last.existing[k].Name, Payload(i).Name, last.zone) }

CallsFor(i) == { k \in 1..Len(Mutating) : Mutating[k].idx = i }

Min(S) == CHOOSE k \in S : \A m \in S : k <= m

\* SetRecords got as far as input i
SetReached(i) ==
    i <= Len(last.results) + (IF last.err = "nil" THEN 0 ELSE 1)

ZoneAddress == FirstLabel(TrimSuffix(last.zone, Dot))

(***************************************************************************)
(* C1: SetRecords, for every input record it gets to: if the fetched list  *)
(* has a record of the same type (case-insensitively) and a name matching  *)
(* via namesMatch, exactly one update is sent, to the ID of the first such *)
(* record, no create, and the record returned for the input carries the    *)
(* payload's type, name, data and TTL; otherwise exactly one create and no *)
(* update.                                                                 *)
(***************************************************************************)
C1_SetUpdatesFirstMatch ==
    (last.op = "set" /\ Listed) =>
      \A i \in 1..Len(last.input) : SetReached(i) =>
        /\ Cardinality(CallsFor(i)) = 1
        /\ LET c == Mutating[Min(CallsFor(i))]
               p == Payload(i)
           IN  IF TypeNameHits(i) # {}
               THEN /\ c.kind = "update"
                    /\ c.id = recordID(last.existing[Min(TypeNameHits(i))])
                    /\ c.payload = p
                    /\ c.err = "nil" =>
                         last.results[i] = [Name |-> p.Name, TTL |-> p.TTL,
                                            Type |-> p.Type, Data |-> p.Data]
               ELSE c.kind = "create" /\ c.payload = p

(***************************************************************************)
(* C2: AppendRecords, SetRecords and DeleteRecords stop at the first       *)
(* create, update or delete that returns an error: it is the last request  *)
(* sent, its error is the handler's error, the returned list has one       *)
(* record per request that succeeded before it, in order, and no request   *)
(* undoes an earlier one.                                                  *)
(***************************************************************************)
KindsOf(op) ==
    CASE op = "append" -> {"create"}
      [] op = "set"    -> {"create", "update"}
      [] op = "delete" -> {"delete"}
      [] OTHER         -> {}

ResultOfCall(k) ==
    LET c == Mutating[k]
        r == last.results[k]
    IN  IF c.kind = "delete"
        THEN \E j \in 1..Len(last.existing) :
               /\ recordID(last.existing[j]) = c.id
               /\ r = toLibdnsRecord(last.existing[j], last.zone)
        ELSE r.Type = c.payload.Type /\ r.Data = c.payload.Data

C2_StopAtFirstError ==
    (last.op \in {"append", "set", "delete"}) =>
      LET m == Mutating
          n == Len(m)
      IN  /\ \A k \in 1..n : m[k].kind \in KindsOf(last.op)
          /\ \A k \in 1..n : k < n => m[k].err = "nil"
          /\ \A k \in 1..n : k < n => m[k].idx <= m[k + 1].idx
          /\ (n > 0 /\ m[n].err # "nil") => last.err = m[n].err
          /\ (n > 0 /\ m[n].err = "nil") => last.err = "nil"
          /\ Len(last.results) = Cardinality({k \in 1..n : m[k].err = "nil"})
          /\ \A k \in 1..Len(last.results) : ResultOfCall(k)
          /\ last.op \in {"append", "set"} =>
               Len(store) = Len(last.pre)
                            + Cardinality({k \in 1..n : m[k].kind = "create"
                                                        /\ Applied(m[k].resp)})

C2_Witness ==
    /\ last.op \in {"append", "set", "delete"}
    /\ Len(last.input) >= 2
    /\ last.err # "nil"
    /\ Len(last.results) = 1
    /\ Len(Mutating) = 2

(***************************************************************************)
(* C3: DeleteRecords deletes, for each input record, exactly the fetched   *)
(* records whose type matches case-insensitively, whose name matches via   *)
(* namesMatch and, when the input has data, whose data is equal; they are  *)
(* deleted, and returned, in the order of the fetched list.  A call cut    *)
(* short by an error has deleted a prefix of them.                         *)
(***************************************************************************)
ShouldDelete(i, j) ==
    /\ EqualFold(last.existing[j].Type, last.input[i].Type)
    /\ namesMatch(last.existing[j].Name, Payload(i).Name, last.zone)
    /\ (last.input[i].Data # "" => last.existing[j].Data = last.input[i].Data)

RECURSIVE ExpectedDeletes(_, _)
ExpectedDeletes(i, j) ==
    IF i > Len(last.input) THEN <<>>
    ELSE IF j > Len(last.existing) THEN ExpectedDeletes(i + 1, 1)
    ELSE (IF ShouldDelete(i, j) THEN <<[idx |-> i, pos |-> j]>> ELSE <<>>)
         \o ExpectedDeletes(i, j + 1)

C3_DeleteExactlyMatches ==
    (last.op = "delete" /\ Listed) =>
      LET m   == Mutating
          exp == ExpectedDeletes(1, 1)
      IN  /\ Len(m) <= Len(exp)
          /\ last.err = "nil" => Len(m) = Len(exp)
          /\ \A k \in 1..Len(m) :
               /\ m[k].idx = exp[k].idx
               /\ m[k].id = recordID(last.existing[exp[k].pos])
          /\ \A k \in 1..Len(last.results) :
               last.results[k] = toLibdnsRecord(last.existing[exp[k].pos], last.zone)

\* one input with data that leaves a type+name match alone, and one without
\* data that deletes two records
C3_Witness ==
    /\ last.op = "delete" /\ Listed /\ last.err = "nil"
    /\ \E i \in 1..Len(last.input) :
         /\ last.input[i].Data # ""
         /\ CallsFor(i) # {}
         /\ Cardinality(CallsFor(i)) < Cardinality(TypeNameHits(i))
    /\ \E i \in 1..Len(last.input) :
         /\ last.input[i].Data = ""
         /\ Cardinality(CallsFor(i)) = 2

(***************************************************************************)
(* C4: GetRecords turns the provider name <address> into "@" and the       *)
(* provider name <label>.<address> into <label>.                           *)
(***************************************************************************)
C4_ProviderNameToRelative ==
    (last.op = "get" /\ Listed) =>
      /\ Len(last.results) = Len(last.existing)
      /\ \A k \in 1..Len(last.existing) :
           LET name == last.existing[k].Name
           IN  /\ name = ZoneAddress => last.results[k].Name = <<"@">>
               /\ (name # ZoneAddress /\ HasSuffix(name, Dot \o ZoneAddress)) =>
                    last.results[k].Name = TrimSuffix(name, Dot \o ZoneAddress)

(***************************************************************************)
(* C5: every list, create, update and delete request returns an error      *)
(* exactly when the HTTP status is not 2xx or the envelope's success flag  *)
(* is false.                                                               *)
(***************************************************************************)
C5_ErrorIffStatusOrEnvelope ==
    \A k \in 1..Len(last.calls) :
      LET c == last.calls[k]
      IN  (c.err # "nil") <=> (c.resp.status \notin 200..299 \/ ~c.resp.success)

(***************************************************************************)
(* C6: namesMatch gives the same answer when the letter case of its        *)
(* arguments is changed.                                                   *)
(***************************************************************************)
C6_NamesMatchIgnoresCase == cmp.done => (cmp.match = cmp.match2)

(***************************************************************************)
(* C7: SetRecords that fetched an empty list does what AppendRecords does  *)
(* on the same zone and records: the same create requests answered the     *)
(* same way, no update, the same returned list and error.                  *)
(***************************************************************************)
Outcome(calls, results, err, st) ==
    [calls |-> calls, results |-> results, err |-> err, store |-> st]

AppendOutcomes ==
    { Outcome(r.calls, r.results, r.err, r.store) :
        r \in AppendRecordsRuns(last.zone, last.input,
                 [store |-> last.pre, nextID |-> last.preID, existing |-> <<>>,
                  calls |-> <<>>, results |-> <<>>, err |-> "nil"]) }

C7_SetOnEmptyIsAppend ==
    (last.op = "set" /\ Listed /\ last.existing = <<>>) =>
      Outcome(Mutating, last.results, last.err, store) \in AppendOutcomes

C7_Witness ==
    /\ last.op = "set" /\ Listed /\ last.existing = <<>>
    /\ Len(last.input) = 2
    /\ Len(last.results) = 1
    /\ last.err # "nil"

(***************************************************************************)
(* C8: after SetRecords returned no error, every request having been       *)
(* carried out by the server, each input record has a provider record of   *)
(* its own with the input's type, name and data.                           *)
(***************************************************************************)
Holds(r, i) ==
    /\ EqualFold(r.Type, last.input[i].Type)
    /\ r.Name = StoredName(Payload(i).Name)
    /\ r.Data = last.input[i].Data

C8_SetOneRecordPerInput ==
    (/\ last.op = "set" /\ Listed /\ last.err = "nil"
     /\ \A k \in 1..Len(last.calls) : Applied(last.calls[k].resp)) =>
      \E f \in [1..Len(last.input) -> 1..Len(store)] :
        /\ \A i, j \in 1..Len(last.input) : i # j => f[i] # f[j]
        /\ \A i \in 1..Len(last.input) : Holds(store[f[i]], i)

(***************************************************************************)
(* C9: one DeleteRecords call sends at most one delete per record ID.      *)
(***************************************************************************)
C9_DeleteEachIDOnce ==
    (last.op = "delete") =>
      \A k1, k2 \in 1..Len(Mutating) :
        k1 # k2 => Mutating[k1].id # Mutating[k2].id

(***************************************************************************)
(* C10: SetRecords and DeleteRecords update or delete a fetched record     *)
(* only if its provider name denotes the input's name: <address> for an    *)
(* apex input, <relative name>.<address> otherwise, case-insensitively.    *)
(***************************************************************************)
Denotes(providerName, i) ==
    LET rel == RelativeName(last.input[i].Name, last.zone)
    IN  IF rel = <<"@">> \/ rel = <<>>
        THEN EqualFold(providerName, ZoneAddress)
        ELSE EqualFold(providerName, rel \o Dot \o ZoneAddress)

C10_MatchOnlySameName ==
    (last.op \in {"set", "delete"}) =>
      \A k \in 1..Len(Mutating) :
        Mutating[k].kind \in {"update", "delete"} =>
          \A j \in 1..Len(last.existing) :
            recordID(last.existing[j]) = Mutating[k].id =>
              Denotes(last.existing[j].Name, Mutating[k].idx)

====
